---- MODULE Spec2Model ----
(***************************************************************************)
(* CSVDataValidator.py: the CSVDataValidator class (field checks, row      *)
(* validation, failure counters) and the main program's pass over one      *)
(* input stream (header handling, row loop, good and bad output files).    *)
(*                                                                         *)
(* A field is a sequence of one-character strings; a literal piece of text *)
(* that the program only concatenates (a header label, a message prefix)   *)
(* is one element.  A row is a sequence of fields.  Rows, validator keys   *)
(* and validateRow's results keep Python's 0-based field numbers; the      *)
(* field numbered i is row[i + 1].                                         *)
(***************************************************************************)
EXTENDS Integers, Sequences, FiniteSets, TLC

VARIABLES
    currentValidator,   \* the CSVDataValidator instance chosen by argv[1]
    pc,                 \* "header" | "rows" | "done" | "exit" | "error"
    headerRow,          \* the first record of the input, once read
    goodDataFile,       \* records written by goodDataFileWriter, in order
    badDataFile,        \* records written by badDataFileWriter, in order
    goodRowCounter,
    badRowCounter,
    totalRowCounter,
    calls               \* history: one entry per validateRow call, in order

vars == <<currentValidator, pc, headerRow, goodDataFile, badDataFile,
          goodRowCounter, badRowCounter, totalRowCounter, calls>>

(***************************************************************************)
(* Bounds of the model.                                                    *)
(***************************************************************************)
MaxRows == 4        \* data rows read in one run of Spec
MaxFields == 4      \* widest generated rule set of SpecRow
MaxMutations == 1   \* digits of the routing number replaced in SpecField

(***************************************************************************)
(* Results of a call: a returned value or a raised exception.              *)
(***************************************************************************)
Return(v) == [kind |-> "return", value |-> v]
Raise(e) == [kind |-> "raise", exc |-> e]

\* validateRow's integer results
Accepted == -1
RejectedShapeMismatch == -2
RejectedTooManyEmptyFields == -3

(***************************************************************************)
(* Characters and str methods.                                             *)
(***************************************************************************)
DigitChars == <<"0", "1", "2", "3", "4", "5", "6", "7", "8", "9">>
Digits == {DigitChars[i] : i \in 1..10}
Whitespace == {" ", "\t"}

\* int(digit) for a one-character string: its value, or ValueError
int(c) ==
    IF c \in Digits
    THEN Return((CHOOSE i \in 1..10 : DigitChars[i] = c) - 1)
    ELSE Raise("ValueError")

\* str.isdigit(): non-empty and every character a digit
isdigit(field) == Len(field) > 0 /\ \A i \in 1..Len(field) : field[i] \in Digits

RECURSIVE lstrip(_)
lstrip(field) ==
    IF field # <<>> /\ Head(field) \in Whitespace THEN lstrip(Tail(field)) ELSE field

RECURSIVE rstrip(_)
rstrip(field) ==
    IF field # <<>> /\ field[Len(field)] \in Whitespace
    THEN rstrip(SubSeq(field, 1, Len(field) - 1))
    ELSE field

\* str.strip()
strip(field) == rstrip(lstrip(field))

\* x in tuple
InTuple(x, tuple) == \E i \in 1..Len(tuple) : tuple[i] = x

(***************************************************************************)
(* The configured regular expression (the SSN pattern of the employee and  *)
(* customer validators), matched as re.match does: from the start of the   *)
(* field, the pattern's $ at its end.                                      *)
(*   ^(?!000)(?!666)(?!9)\d{3}[- ]?(?!00)\d{2}[- ]?(?!0000)\d{4}$          *)
(* An optional separator that is present must be consumed: leaving it to   *)
(* the following \d never matches.                                         *)
(***************************************************************************)
SSNRegex == "^(?!000)(?!666)(?!9)\\d{3}[- ]?(?!00)\\d{2}[- ]?(?!0000)\\d{4}$"

SSNMatch(field) ==
    LET n == Len(field)
        At(i) == IF i <= n THEN field[i] ELSE "$"
        IsD(i) == At(i) \in Digits
        IsSep(i) == At(i) \in {"-", " "}
        p1 == IF IsSep(4) THEN 5 ELSE 4
        p2 == IF IsSep(p1 + 2) THEN p1 + 3 ELSE p1 + 2
    IN  /\ ~(At(1) = "0" /\ At(2) = "0" /\ At(3) = "0")
        /\ ~(At(1) = "6" /\ At(2) = "6" /\ At(3) = "6")
        /\ At(1) # "9"
        /\ IsD(1) /\ IsD(2) /\ IsD(3)
        /\ ~(At(p1) = "0" /\ At(p1 + 1) = "0")
        /\ IsD(p1) /\ IsD(p1 + 1)
        /\ ~(At(p2) = "0" /\ At(p2 + 1) = "0" /\ At(p2 + 2) = "0" /\ At(p2 + 3) = "0")
        /\ IsD(p2) /\ IsD(p2 + 1) /\ IsD(p2 + 2) /\ IsD(p2 + 3)
        /\ p2 + 4 = n + 1

\* compiledRegex.match(field) is not None
RegexMatches(regex, field) ==
    CASE regex = SSNRegex -> SSNMatch(field)

(***************************************************************************)
(* The field checks.  Each returns Return(TRUE), Return(FALSE) or a raise. *)
(***************************************************************************)
\* mutant of validateString: the block list is consulted for an empty field too
validateStringNoEmptyCheck(fieldValidator, field) ==
    IF InTuple(field, fieldValidator.strings) THEN Return(FALSE)
    ELSE Return(TRUE)

validateString(fieldValidator, field) ==
    IF Len(field) = 0
    THEN IF fieldValidator.allowEmptyFields = FALSE THEN Return(FALSE) ELSE Return(TRUE)
    ELSE IF InTuple(field, fieldValidator.strings) THEN Return(FALSE)
    ELSE Return(TRUE)

validateRegex(fieldValidator, field) ==
    IF Len(field) = 0
    THEN IF fieldValidator.allowEmptyFields = FALSE THEN Return(FALSE) ELSE Return(TRUE)
    ELSE IF ~RegexMatches(fieldValidator.regex, field) THEN Return(FALSE)
    ELSE Return(TRUE)

\* mutant of ABAResult: the weights 3 and 7 change places
ABAResultSwapped(field) ==
    LET d == [i \in 0..(Len(field) - 1) |-> int(field[i + 1])]
    IN  IF \E i \in DOMAIN d : d[i].kind = "raise"
        THEN Raise("ValueError")
        ELSE Return(( 7 * (d[0].value + d[3].value + d[6].value)
                    + 3 * (d[1].value + d[4].value + d[7].value)
                    + (d[2].value + d[5].value + d[8].value)) % 10)

\* d = [int(digit) for digit in field]; result = (...) % 10
ABAResult(field) ==
    LET d == [i \in 0..(Len(field) - 1) |-> int(field[i + 1])]
    IN  IF \E i \in DOMAIN d : d[i].kind = "raise"
        THEN Raise("ValueError")
        ELSE Return(( 3 * (d[0].value + d[3].value + d[6].value)
                    + 7 * (d[1].value + d[4].value + d[7].value)
                    + (d[2].value + d[5].value + d[8].value)) % 10)

validateABAChecksum(fieldValidator, field) ==
    LET fieldLength == Len(field)
    IN  IF fieldLength = 0
        THEN IF fieldValidator.allowEmptyFields = FALSE THEN Return(FALSE) ELSE Return(TRUE)
        ELSE IF fieldValidator.validate
        THEN IF fieldLength # 9 THEN Return(FALSE)
             ELSE LET result == ABAResult(field)
                  IN  IF result.kind = "raise" THEN result
                      ELSE IF result.value # 0 THEN Return(FALSE)
                      ELSE Return(TRUE)
        ELSE Return(TRUE)

validateLength(fieldValidator, field) ==
    LET fieldLength == Len(field)
        range == fieldValidator.range
    IN  IF fieldLength = 0
        THEN IF fieldValidator.allowEmptyFields = FALSE THEN Return(FALSE) ELSE Return(TRUE)
        ELSE IF fieldValidator.checkNumeric /\ fieldLength > 0 /\ isdigit(field) # TRUE
        THEN Return(FALSE)
        ELSE IF range[1] # 0 /\ fieldLength < range[1] THEN Return(FALSE)
        ELSE IF range[2] # -1 /\ fieldLength > range[2] THEN Return(FALSE)
        ELSE Return(TRUE)

validateField(self, fieldIndex, field) ==
    IF fieldIndex \in DOMAIN self.validators
    THEN LET fieldValidator == self.validators[fieldIndex]
         IN  CASE fieldValidator.type = "str" -> validateString(fieldValidator, field)
               [] fieldValidator.type = "re" -> validateRegex(fieldValidator, field)
               [] fieldValidator.type = "len" -> validateLength(fieldValidator, field)
               [] fieldValidator.type = "aba" -> validateABAChecksum(fieldValidator, field)
               [] OTHER -> Raise("SystemExit")
    ELSE Return(TRUE)

(***************************************************************************)
(* The CSVDataValidator instance.  validatorDict.validators maps field     *)
(* numbers to field validators (a function on a finite set of naturals).   *)
(***************************************************************************)
EmptyDict == [k \in {} |-> 0]

\* __init__: regex compilation leaves the pattern as the matcher's key
Construct(validatorDict) ==
    [ name |-> validatorDict.name,
      validators |-> validatorDict.validators,
      numFields |-> Cardinality(DOMAIN validatorDict.validators),
      maxEmptyFields |-> Cardinality(DOMAIN validatorDict.validators) - 1,
      badFieldCounters |-> [fieldNum \in DOMAIN validatorDict.validators |-> 0],
      fieldNames |-> EmptyDict ]

getHeaderNames(self, row) ==
    IF Len(row) > 0
    THEN [self EXCEPT !.fieldNames =
              [index \in (DOMAIN self.fieldNames) \cup (0..(Len(row) - 1)) |->
                  IF index < Len(row) THEN row[index + 1] ELSE self.fieldNames[index]]]
    ELSE self

(***************************************************************************)
(* validateRow's loop from position index on.  The record returned holds   *)
(* the call's result (out), the validator's counters after the call and,   *)
(* as history, the result of every validateField call made (checks).       *)
(***************************************************************************)
\* mutant of CountBadField: every failure is counted under the first field
CountBadFieldAtFirst(badFieldCounters, index) ==
    [badFieldCounters EXCEPT ![0] = @ + 1]

\* self.badFieldCounters[index] = self.badFieldCounters[index] + 1
CountBadField(badFieldCounters, index) ==
    [badFieldCounters EXCEPT ![index] = @ + 1]

\* mutant of TooManyEmptyFields: the limit itself is still tolerated
TooManyEmptyFieldsStrict(self, numEmptyFields) ==
    numEmptyFields > self.maxEmptyFields

\* numEmptyFields >= self.maxEmptyFields
TooManyEmptyFields(self, numEmptyFields) ==
    numEmptyFields >= self.maxEmptyFields

\* mutant of RowLoop: the count of empty fields is not carried to the next field
RECURSIVE RowLoopNoCount(_, _, _, _, _)
RowLoopNoCount(self, row, index, numEmptyFields, checks) ==
    IF index >= Len(row)
    THEN [out |-> Return(Accepted), checks |-> checks,
          badFieldCounters |-> self.badFieldCounters]
    ELSE LET field == strip(row[index + 1])
             check == validateField(self, index, field)
             checked == Append(checks, check)
         IN  IF check.kind = "raise"
             THEN [out |-> check, checks |-> checked,
                   badFieldCounters |-> self.badFieldCounters]
             ELSE IF check.value # TRUE
             THEN [out |-> Return(index), checks |-> checked,
                   badFieldCounters |-> CountBadField(self.badFieldCounters, index)]
             ELSE IF Len(field) = 0
             THEN IF TooManyEmptyFields(self, numEmptyFields + 1)
                  THEN [out |-> Return(RejectedTooManyEmptyFields), checks |-> checked,
                        badFieldCounters |-> self.badFieldCounters]
                  ELSE RowLoopNoCount(self, row, index + 1, numEmptyFields, checked)
             ELSE RowLoopNoCount(self, row, index + 1, numEmptyFields, checked)

RECURSIVE RowLoop(_, _, _, _, _)
RowLoop(self, row, index, numEmptyFields, checks) ==
    IF index >= Len(row)
    THEN [out |-> Return(Accepted), checks |-> checks,
          badFieldCounters |-> self.badFieldCounters]
    ELSE LET field == strip(row[index + 1])
             check == validateField(self, index, field)
             checked == Append(checks, check)
         IN  IF check.kind = "raise"
             THEN [out |-> check, checks |-> checked,
                   badFieldCounters |-> self.badFieldCounters]
             ELSE IF check.value # TRUE
             THEN [out |-> Return(index), checks |-> checked,
                   badFieldCounters |-> CountBadField(self.badFieldCounters, index)]
             ELSE IF Len(field) = 0
             THEN IF TooManyEmptyFields(self, numEmptyFields + 1)
                  THEN [out |-> Return(RejectedTooManyEmptyFields), checks |-> checked,
                        badFieldCounters |-> self.badFieldCounters]
                  ELSE RowLoop(self, row, index + 1, numEmptyFields + 1, checked)
             ELSE RowLoop(self, row, index + 1, numEmptyFields, checked)

\* mutant of validateRow: only a row with too few fields is a shape mismatch
validateRowShort(self, row) ==
    IF self.name = "novalidate"
    THEN [out |-> Return(Accepted), checks |-> <<>>,
          badFieldCounters |-> self.badFieldCounters]
    ELSE IF Len(row) < Cardinality(DOMAIN self.validators)
    THEN [out |-> Return(RejectedShapeMismatch), checks |-> <<>>,
          badFieldCounters |-> self.badFieldCounters]
    ELSE RowLoop(self, row, 0, 0, <<>>)

\* mutant of validateRow: no special case for the novalidate validator
validateRowNoSkip(self, row) ==
    IF Len(row) # Cardinality(DOMAIN self.validators)
    THEN [out |-> Return(RejectedShapeMismatch), checks |-> <<>>,
          badFieldCounters |-> self.badFieldCounters]
    ELSE RowLoop(self, row, 0, 0, <<>>)

validateRow(self, row) ==
    IF self.name = "novalidate"
    THEN [out |-> Return(Accepted), checks |-> <<>>,
          badFieldCounters |-> self.badFieldCounters]
    ELSE IF Len(row) # Cardinality(DOMAIN self.validators)
    THEN [out |-> Return(RejectedShapeMismatch), checks |-> <<>>,
          badFieldCounters |-> self.badFieldCounters]
    ELSE RowLoop(self, row, 0, 0, <<>>)

(***************************************************************************)
(* The configured validators (the table of the main program).              *)
(***************************************************************************)
noValidateValidatorDict == [name |-> "novalidate", validators |-> EmptyDict]

EmployeeValidatorDict ==
    [ name |-> "employee",
      validators |->
           0 :> [type |-> "str", allowEmptyFields |-> FALSE, strings |-> <<>>]
        @@ 1 :> [type |-> "re", allowEmptyFields |-> FALSE, regex |-> SSNRegex]
        @@ 2 :> [type |-> "aba", allowEmptyFields |-> TRUE, validate |-> TRUE]
        @@ 3 :> [type |-> "len", allowEmptyFields |-> TRUE, checkNumeric |-> TRUE,
                 range |-> <<4, -1>>] ]

CustomerValidatorDict ==
    [ name |-> "customer",
      validators |->
           0 :> [type |-> "str", allowEmptyFields |-> FALSE, strings |-> <<>>]
        @@ 1 :> [type |-> "re", allowEmptyFields |-> FALSE, regex |-> SSNRegex]
        @@ 2 :> [type |-> "aba", allowEmptyFields |-> TRUE, validate |-> FALSE]
        @@ 3 :> [type |-> "len", allowEmptyFields |-> TRUE, checkNumeric |-> FALSE,
                 range |-> <<4, -1>>] ]

(***************************************************************************)
(* Inputs of Spec: further validator dictionaries the class accepts, and   *)
(* the records the reader may yield.                                       *)
(***************************************************************************)
\* every field may be empty, so that the empty-field limit is what rejects
LenientValidatorDict ==
    [ name |-> "lenient",
      validators |->
           0 :> [type |-> "str", allowEmptyFields |-> TRUE, strings |-> <<<<"b", "a", "d">>>>]
        @@ 1 :> [type |-> "re", allowEmptyFields |-> TRUE, regex |-> SSNRegex]
        @@ 2 :> [type |-> "aba", allowEmptyFields |-> TRUE, validate |-> TRUE]
        @@ 3 :> [type |-> "len", allowEmptyFields |-> TRUE, checkNumeric |-> TRUE,
                 range |-> <<0, 4>>] ]

ValidatorDicts ==
    {noValidateValidatorDict, EmployeeValidatorDict, CustomerValidatorDict,
     LenientValidatorDict}

Empty == <<>>
Blank == <<" ", " ">>
Bob == <<"B", "o", "b">>
PaddedBob == <<" ">> \o <<"B", "o", "b">> \o <<" ", "\t">>
Bad == <<"b", "a", "d">>
SSNGood == <<"1", "2", "3", "-", "4", "5", "-", "6", "7", "8", "9">>
SSN666 == <<"6", "6", "6", "-", "1", "2", "-", "3", "4", "5", "6">>
ABAGood == <<"4", "9", "0", "0", "0", "0", "0", "1", "8">>
ABAWrong == <<"1", "2", "3", "4", "5", "6", "7", "8", "9">>
ABANonDigit == <<"1", "2", "3", "4", "5", "6", "7", "8", "X">>
ABAOther == <<"0", "2", "1", "0", "0", "0", "0", "2", "1">>
Num1234 == <<"1", "2", "3", "4">>
Num123 == <<"1", "2", "3">>
Abcd == <<"a", "b", "c", "d">>

\* the data records of Spec
RunRows ==
    { <<PaddedBob, SSNGood, ABAGood, Num1234>>,
      <<Empty, SSN666, ABAWrong, Empty>>,
      <<Bob, SSNGood, ABAWrong, Num1234>>,
      <<Bob, SSNGood, ABANonDigit, Num1234>>,
      <<Bob, SSNGood, ABAGood, Abcd>>,
      <<Bob, Empty, Blank, Empty>>,
      <<Bob, SSNGood, ABAGood>>,
      <<Bob, SSNGood, ABANonDigit, Num1234, Bob>>,
      <<>> }

\* header labels, by column
ColNames == <<"name", "ssn", "aba", "code", "col4", "col5", "col6", "col7", "col8">>

HeaderOfWidth(n) == [i \in 1..n |-> <<ColNames[i]>>]

\* the header records the reader may yield first: every width up to two more
\* columns than the validator has fields
Headers(self) == {HeaderOfWidth(n) : n \in 0..(self.numFields + 2)}

(***************************************************************************)
(* The main program.  Init is the state after the files are opened and the *)
(* validator is chosen; the counters are shown as 0 before their           *)
(* initialisation, where nothing reads them.                               *)
(***************************************************************************)
InitWith(dicts) ==
    /\ currentValidator \in {Construct(validatorDict) : validatorDict \in dicts}
    /\ pc = "header"
    /\ headerRow = <<>>
    /\ goodDataFile = <<>>
    /\ badDataFile = <<>>
    /\ goodRowCounter = 0
    /\ badRowCounter = 0
    /\ totalRowCounter = 0
    /\ calls = <<>>

\* mutant of writerow: the record is put in front of the file's records
writerowFirst(file, row) == <<row>> \o file

\* csv.writer.writerow: the record is added at the end of the file
writerow(file, row) == Append(file, row)

\* mutant of HeaderMismatches: only a header with too few columns is caught
HeaderMismatchesShort(self, row) ==
    self.name # "novalidate" /\ Len(row) < Cardinality(DOMAIN self.validators)

\* the header check of the main program
HeaderMismatches(self, row) ==
    self.name # "novalidate" /\ Len(row) # Cardinality(DOMAIN self.validators)

\* next(inputFileReader) on an input with no record: StopIteration
EmptyInput ==
    /\ pc = "header"
    /\ pc' = "error"
    /\ UNCHANGED <<currentValidator, headerRow, goodDataFile, badDataFile,
                   goodRowCounter, badRowCounter, totalRowCounter, calls>>

\* the header's column count differs from the validator's: sys.exit
HeaderAbort ==
    /\ pc = "header"
    /\ \E row \in Headers(currentValidator) :
          /\ HeaderMismatches(currentValidator, row)
          /\ headerRow' = row
    /\ pc' = "exit"
    /\ UNCHANGED <<currentValidator, goodDataFile, badDataFile,
                   goodRowCounter, badRowCounter, totalRowCounter, calls>>

\* the header is kept and written to both files; the counters are initialised
WriteHeader ==
    /\ pc = "header"
    /\ \E row \in Headers(currentValidator) :
          /\ ~HeaderMismatches(currentValidator, row)
          /\ headerRow' = row
          /\ currentValidator' = getHeaderNames(currentValidator, row)
          /\ goodDataFile' = writerow(goodDataFile, row)
          /\ badDataFile' = writerow(badDataFile, Append(row, <<"ERROR_MESSAGE">>))
    /\ goodRowCounter' = 0
    /\ badRowCounter' = 0
    /\ totalRowCounter' = 0
    /\ pc' = "rows"
    /\ UNCHANGED calls

\* the message appended for a failed field
BadDataMessage(self, row, result) ==
    IF Len(row[result + 1]) > 0
    THEN <<"BAD DATA IN FIELD: ">> \o self.fieldNames[result] \o <<" VALUE: ">>
            \o row[result + 1]
    ELSE <<"BAD DATA IN FIELD: ">> \o self.fieldNames[result] \o <<" VALUE: EMPTY">>

\* one iteration of the row loop, for a record of rows; at most limit rows
ProcessRow(rows, limit) ==
    /\ pc = "rows"
    /\ totalRowCounter < limit
    /\ \E row \in rows :
          LET call == validateRow(currentValidator, row)
              self == [currentValidator EXCEPT !.badFieldCounters = call.badFieldCounters]
          IN  /\ totalRowCounter' = totalRowCounter + 1
              /\ currentValidator' = self
              /\ calls' = Append(calls, [row |-> row, out |-> call.out,
                                         checks |-> call.checks])
              /\ IF call.out.kind = "raise"
                 THEN /\ pc' = "error"
                      /\ UNCHANGED <<goodRowCounter, badRowCounter,
                                     goodDataFile, badDataFile>>
                 ELSE LET result == call.out.value
                      IN  /\ pc' = pc
                          /\ IF result = -1
                             THEN /\ goodRowCounter' = goodRowCounter + 1
                                  /\ goodDataFile' = writerow(goodDataFile, row)
                                  /\ UNCHANGED <<badRowCounter, badDataFile>>
                             ELSE /\ badRowCounter' = badRowCounter + 1
                                  /\ badDataFile' = writerow(badDataFile, Append(row,
                                        IF result = -2 THEN <<"INCORRECT NUMBER OF FIELDS">>
                                        ELSE IF result = -3 THEN <<"TOO MANY EMPTY FIELDS">>
                                        ELSE BadDataMessage(self, row, result)))
                                  /\ UNCHANGED <<goodRowCounter, goodDataFile>>
    /\ UNCHANGED headerRow

\* the reader is exhausted: the summary is printed
EndOfInput ==
    /\ pc = "rows"
    /\ pc' = "done"
    /\ UNCHANGED <<currentValidator, headerRow, goodDataFile, badDataFile,
                   goodRowCounter, badRowCounter, totalRowCounter, calls>>

Init == InitWith(ValidatorDicts)

Next ==
    \/ EmptyInput
    \/ HeaderAbort
    \/ WriteHeader
    \/ ProcessRow(RunRows, MaxRows)
    \/ EndOfInput

Spec == Init /\ [][Next]_vars

(***************************************************************************)
(* SpecRow: one validateRow call of a generated validator on every record  *)
(* of up to one field more than the validator has.                         *)
(***************************************************************************)
RowRules ==
    { [type |-> "str", allowEmptyFields |-> TRUE, strings |-> <<>>],
      [type |-> "len", allowEmptyFields |-> FALSE, checkNumeric |-> TRUE,
       range |-> <<0, -1>>],
      [type |-> "aba", allowEmptyFields |-> TRUE, validate |-> TRUE] }

RowFields == {Empty, <<" ">>, <<"1", "2">>}

GeneratedDicts ==
    { [name |-> "generated", validators |-> v] :
        v \in UNION {[0..(n - 1) -> RowRules] : n \in 1..MaxFields} }

\* every row of up to n fields over RowFields, and the rows of up to n fields
\* that hold a nine-character field with a letter in every position
RowsUpTo(n) ==
    UNION {[1..k -> RowFields] : k \in 0..n}
    \cup {[i \in 1..k |-> ABANonDigit] : k \in 1..n}

InitRow == InitWith(GeneratedDicts)

NextRow ==
    \/ EmptyInput
    \/ HeaderAbort
    \/ WriteHeader
    \/ ProcessRow(RowsUpTo(currentValidator.numFields + 1), 1)
    \/ EndOfInput

SpecRow == InitRow /\ [][NextRow]_vars

(***************************************************************************)
(* SpecField: one field check, as the only field of a one-field validator, *)
(* for every rule of FieldRules and every field of FieldValues.            *)
(***************************************************************************)
FieldRules ==
         { [type |-> "str", allowEmptyFields |-> a, strings |-> t] :
             a \in BOOLEAN, t \in {<<>>, <<Bad>>, <<Empty, Bad>>} }
    \cup { [type |-> "re", allowEmptyFields |-> a, regex |-> SSNRegex] :
             a \in BOOLEAN }
    \cup { [type |-> "len", allowEmptyFields |-> a, checkNumeric |-> c, range |-> r] :
             a \in BOOLEAN, c \in BOOLEAN, r \in {<<4, -1>>, <<0, -1>>, <<2, 3>>} }
    \cup { [type |-> "aba", allowEmptyFields |-> a, validate |-> c] :
             a \in BOOLEAN, c \in BOOLEAN }

\* the fields that differ from field in one position
Replaced(field) ==
    { [field EXCEPT ![p] = c] : p \in 1..Len(field), c \in Digits \cup {"X"} }

RECURSIVE Mutants(_, _)
Mutants(field, k) ==
    IF k = 0 THEN {field}
    ELSE LET m == Mutants(field, k - 1)
         IN  m \cup UNION {Replaced(f) : f \in m}

FieldValues ==
    {Empty, <<" ">>, Blank, Bob, PaddedBob, Bad, SSNGood, SSN666,
     Num1234, Num123, Abcd, SubSeq(ABAGood, 1, 8), ABAGood \o <<"0">>,
     ABAWrong, ABANonDigit, ABAOther}
    \cup Mutants(ABAGood, MaxMutations)

FieldDicts ==
    { [name |-> "field", validators |-> 0 :> rule] : rule \in FieldRules }

InitField == InitWith(FieldDicts)

NextField ==
    \/ EmptyInput
    \/ HeaderAbort
    \/ WriteHeader
    \/ ProcessRow({<<field>> : field \in FieldValues}, 1)
    \/ EndOfInput

SpecField == InitField /\ [][NextField]_vars

(***************************************************************************)
(* Reading the history.                                                    *)
(***************************************************************************)
Returned(call, v) == call.out.kind = "return" /\ call.out.value = v

IsAccepted(call) == Returned(call, Accepted)

IsRejected(call) == call.out.kind = "return" /\ call.out.value # Accepted

IsFieldFailed(call) == call.out.kind = "return" /\ call.out.value >= 0

\* the rows of the accepted calls, and of the rejected ones, in call order
AcceptedRows(cs) ==
    LET sel == SelectSeq(cs, IsAccepted) IN [k \in 1..Len(sel) |-> sel[k].row]

RejectedRows(cs) ==
    LET sel == SelectSeq(cs, IsRejected) IN [k \in 1..Len(sel) |-> sel[k].row]

\* a record without its last column
DropLast(record) == SubSeq(record, 1, Len(record) - 1)

HeaderWritten == pc \in {"rows", "done"} \/ calls # <<>>

(***************************************************************************)
(* C1: once the header check has passed, every data row read is written    *)
(* exactly once to exactly one file: unmodified to the good file iff       *)
(* validateRow returned -1, otherwise to the bad file with exactly one     *)
(* message column appended; so totalRowCounter = goodRowCounter +          *)
(* badRowCounter, and the counters are the numbers of data records in the  *)
(* good file, the bad file and both.                                       *)
(***************************************************************************)
C1_EveryRowWrittenOnce ==
    HeaderWritten =>
        /\ totalRowCounter = goodRowCounter + badRowCounter
        /\ goodRowCounter = Len(goodDataFile) - 1
        /\ badRowCounter = Len(badDataFile) - 1
        /\ totalRowCounter = Len(calls)
        /\ \A k \in 1..Len(calls) : calls[k].out.kind = "return"
        /\ Tail(goodDataFile) = AcceptedRows(calls)
        /\ Len(Tail(badDataFile)) = Len(RejectedRows(calls))
        /\ \A k \in 2..Len(badDataFile) :
              /\ Len(badDataFile[k]) = Len(RejectedRows(calls)[k - 1]) + 1
              /\ DropLast(badDataFile[k]) = RejectedRows(calls)[k - 1]

(***************************************************************************)
(* C2: badFieldCounters[i] is the number of validateRow calls so far that  *)
(* returned i (the field numbered i failed); calls that returned -1, -2 or *)
(* -3 are counted nowhere.  The counters are a function of which rows were *)
(* presented, not of their order.                                          *)
(***************************************************************************)
C2_CountersCountFieldFailures ==
    \A i \in DOMAIN currentValidator.badFieldCounters :
        currentValidator.badFieldCounters[i] =
            Cardinality({k \in 1..Len(calls) : Returned(calls[k], i)})

\* a run with a failed field counted and both kinds of uncounted rejection
C2_Witness ==
    /\ \E i \in DOMAIN currentValidator.badFieldCounters :
          currentValidator.badFieldCounters[i] >= 1
    /\ \E k \in 1..Len(calls) : Returned(calls[k], RejectedShapeMismatch)
    /\ \E k \in 1..Len(calls) : Returned(calls[k], RejectedTooManyEmptyFields)


(***************************************************************************)
(* C3: under the "novalidate" validator every validateRow call returns -1  *)
(* whatever the row's field count and content, evaluates no field and      *)
(* touches no counter; every data row is written unmodified to the good    *)
(* file and the bad file holds only its header; and no header, of any      *)
(* width, makes the run exit.                                              *)
(***************************************************************************)
C3_NoValidateAcceptsAll ==
    currentValidator.name = "novalidate" =>
        /\ pc # "exit"
        /\ currentValidator.badFieldCounters = EmptyDict
        /\ \A k \in 1..Len(calls) : IsAccepted(calls[k]) /\ calls[k].checks = <<>>
        /\ HeaderWritten =>
              /\ goodDataFile = <<headerRow>> \o [k \in 1..Len(calls) |-> calls[k].row]
              /\ badDataFile = <<Append(headerRow, <<"ERROR_MESSAGE">>)>>
              /\ goodRowCounter = Len(calls)
              /\ badRowCounter = 0

\* a finished novalidate run over a two-column header, an empty record and a
\* record that every configured validator turns down
C3_Witness ==
    /\ currentValidator.name = "novalidate"
    /\ pc = "done"
    /\ Len(headerRow) = 2
    /\ \E k \in 1..Len(calls) : calls[k].row = <<>>
    /\ \E k \in 1..Len(calls) : calls[k].row = <<Empty, SSN666, ABAWrong, Empty>>


(***************************************************************************)
(* Reading one call against the validator: the trimmed field numbered i,   *)
(* whether it passes its rule, and the empty fields up to it.              *)
(***************************************************************************)
Trimmed(row, i) == strip(row[i + 1])

Passes(self, row, i) == validateField(self, i, Trimmed(row, i)) = Return(TRUE)

EmptyUpTo(row, i) == Cardinality({j \in 0..i : Trimmed(row, j) = <<>>})

WellShaped(self, row) == Len(row) = self.numFields

\* the position at which the count of empty fields reaches the limit: an empty
\* field with at least numFields - 1 empty fields up to and including it
ReachesLimit(self, row, p) ==
    /\ Trimmed(row, p) = <<>>
    /\ EmptyUpTo(row, p) >= self.numFields - 1

(***************************************************************************)
(* C4: under a validator other than "novalidate", validateRow returns -2   *)
(* exactly for the rows whose number of fields differs from the number of  *)
(* validators (fewer or more), whatever the fields hold; for such a row no *)
(* field is evaluated, no failure counter changes, and the row is written  *)
(* to the bad file with "INCORRECT NUMBER OF FIELDS" appended.             *)
(***************************************************************************)
C4_ShapeMismatch ==
    currentValidator.name # "novalidate" =>
        \A k \in 1..Len(calls) :
            LET call == calls[k] IN
            /\ Returned(call, RejectedShapeMismatch)
                  <=> Len(call.row) # currentValidator.numFields
            /\ Len(call.row) # currentValidator.numFields =>
                  /\ call.checks = <<>>
                  /\ \A i \in DOMAIN currentValidator.badFieldCounters :
                        currentValidator.badFieldCounters[i] = 0
                  /\ badDataFile[Len(badDataFile)] =
                        Append(call.row, <<"INCORRECT NUMBER OF FIELDS">>)

\* a four-field validator turns down a three-field row and a five-field row
C4_WitnessShort ==
    /\ currentValidator.numFields = 4
    /\ \E k \in 1..Len(calls) :
          /\ Len(calls[k].row) = 3
          /\ Returned(calls[k], RejectedShapeMismatch)
          /\ \A i \in 1..3 : strip(calls[k].row[i]) # <<>>

(***************************************************************************)
(* C5: for a row with the right number of fields, if the count of          *)
(* trimmed-empty fields reaches numFields - 1 at position p and every      *)
(* field up to p passes its rule, validateRow returns -3 there and         *)
(* evaluates no later position; a row whose fields all pass and that has   *)
(* fewer than numFields - 1 trimmed-empty fields is accepted.              *)
(***************************************************************************)
C5_EmptyLimit ==
    \A k \in 1..Len(calls) :
        LET call == calls[k]
            self == currentValidator
            row == call.row
            N == self.numFields
        IN  WellShaped(self, row) =>
              /\ \A p \in 0..(N - 1) :
                    ( /\ ReachesLimit(self, row, p)
                      /\ \A q \in 0..(p - 1) : ~ReachesLimit(self, row, q)
                      /\ \A j \in 0..p : Passes(self, row, j) )
                    => /\ Returned(call, RejectedTooManyEmptyFields)
                       /\ Len(call.checks) = p + 1
              /\ ( /\ \A j \in 0..(N - 1) : Passes(self, row, j)
                   /\ N >= 1
                   /\ EmptyUpTo(row, N - 1) < N - 1 )
                 => IsAccepted(call)

\* a four-field row turned down at its third empty field, the fourth not evaluated
C5_Witness ==
    /\ currentValidator.numFields = 4
    /\ \E k \in 1..Len(calls) :
          /\ Returned(calls[k], RejectedTooManyEmptyFields)
          /\ Len(calls[k].checks) = 3
          /\ EmptyUpTo(calls[k].row, 2) = 3


\* the field numbered i has an aba rule that validates
IsCheckedABA(self, i) ==
    /\ i \in DOMAIN self.validators
    /\ self.validators[i].type = "aba"
    /\ self.validators[i].validate

(***************************************************************************)
(* C6: under an aba rule with validate set, a non-empty trimmed field that *)
(* holds a character that is no digit makes the field check return False   *)
(* as an ordinary failure: validateRow returns that field's number, the    *)
(* row is written to the bad file and the run goes on.                     *)
(***************************************************************************)
C6_NonDigitABAFails ==
    \A k \in 1..Len(calls) :
        \A i \in 0..(Len(calls[k].checks) - 1) :
            ( /\ IsCheckedABA(currentValidator, i)
              /\ Trimmed(calls[k].row, i) # <<>>
              /\ ~isdigit(Trimmed(calls[k].row, i)) )
            => /\ calls[k].checks[i + 1] = Return(FALSE)
               /\ Returned(calls[k], i)
               /\ pc # "error"
               /\ Len(badDataFile) - 1 = Len(RejectedRows(calls))

(***************************************************************************)
(* C7: under a validator other than "novalidate", a header whose column    *)
(* count differs from the number of validators makes the run exit before   *)
(* any row is validated: no validateRow call, no record in either file, no *)
(* counter changed; a header with the right column count never does.       *)
(***************************************************************************)
C7_HeaderMismatchAborts ==
    currentValidator.name # "novalidate" =>
        /\ pc = "exit" =>
              /\ Len(headerRow) # currentValidator.numFields
              /\ calls = <<>>
              /\ goodDataFile = <<>>
              /\ badDataFile = <<>>
              /\ goodRowCounter = 0 /\ badRowCounter = 0 /\ totalRowCounter = 0
              /\ \A i \in DOMAIN currentValidator.badFieldCounters :
                    currentValidator.badFieldCounters[i] = 0
        /\ HeaderWritten => Len(headerRow) = currentValidator.numFields

\* the employee validator over a five-column header
C7_Witness ==
    /\ currentValidator.name = "employee"
    /\ pc = "exit"
    /\ Len(headerRow) = 5

(***************************************************************************)
(* C8: each file keeps the order of the input.  The good file is the       *)
(* unmodified header followed by the accepted rows in the order read; the  *)
(* bad file is the header with one column appended followed by the         *)
(* rejected rows, each with one column appended, in the order read.        *)
(***************************************************************************)
C8_FilesKeepInputOrder ==
    HeaderWritten =>
        /\ goodDataFile = <<headerRow>> \o AcceptedRows(calls)
        /\ Len(badDataFile) >= 1
        /\ badDataFile[1] = Append(headerRow, <<"ERROR_MESSAGE">>)
        /\ [k \in 1..(Len(badDataFile) - 1) |-> DropLast(badDataFile[k + 1])]
              = RejectedRows(calls)

\* two different accepted rows and two different rejected rows, interleaved
C8_Witness ==
    /\ Len(calls) = 4
    /\ IsAccepted(calls[1]) /\ IsRejected(calls[2])
    /\ IsAccepted(calls[3]) /\ IsRejected(calls[4])
    /\ calls[1].row # calls[3].row
    /\ calls[2].row # calls[4].row
    /\ Len(goodDataFile) = 3 /\ Len(badDataFile) = 3


(***************************************************************************)
(* C9: for every rule kind and every setting of its parameters, the check  *)
(* of a field that is empty after trimming (an empty or whitespace-only    *)
(* raw field) returns exactly the rule's allowEmptyFields flag.            *)
(***************************************************************************)
C9_EmptyFieldReturnsAllowEmpty ==
    \A k \in 1..Len(calls) :
        \A i \in 0..(Len(calls[k].checks) - 1) :
            ( /\ i \in DOMAIN currentValidator.validators
              /\ Trimmed(calls[k].row, i) = <<>> )
            => calls[k].checks[i + 1] =
                   Return(currentValidator.validators[i].allowEmptyFields)

\* a whitespace-only field passes a block list that holds the empty string
C9_Witness ==
    /\ Len(calls) = 1
    /\ calls[1].row = <<Blank>>
    /\ currentValidator.validators[0].type = "str"
    /\ InTuple(Empty, currentValidator.validators[0].strings)
    /\ currentValidator.validators[0].allowEmptyFields
    /\ calls[1].checks = <<Return(TRUE)>>

\* the routing number's weighted digit sum, position by position
ABAWeights == <<3, 7, 1, 3, 7, 1, 3, 7, 1>>

DigitValue(c) == (CHOOSE v \in 1..10 : DigitChars[v] = c) - 1

RECURSIVE WeightedSum(_, _)
WeightedSum(field, n) ==
    IF n = 0 THEN 0
    ELSE ABAWeights[n] * DigitValue(field[n]) + WeightedSum(field, n - 1)

(***************************************************************************)
(* C10: under an aba rule with validate set, a non-empty field fails if    *)
(* its length is not 9, and a field of nine digits d0..d8 passes iff       *)
(* (3*(d0+d3+d6) + 7*(d1+d4+d7) + (d2+d5+d8)) mod 10 = 0; "490000018"      *)
(* passes and every value that differs from it in one digit fails.  With   *)
(* validate unset every non-empty field passes.                            *)
(***************************************************************************)
C10_ABAChecksum ==
    \A k \in 1..Len(calls) :
        \A i \in 0..(Len(calls[k].checks) - 1) :
            LET field == Trimmed(calls[k].row, i)
                check == calls[k].checks[i + 1]
                rule == currentValidator.validators[i]
            IN  ( /\ i \in DOMAIN currentValidator.validators
                  /\ rule.type = "aba"
                  /\ field # <<>> )
                => IF rule.validate
                   THEN /\ Len(field) # 9 => check = Return(FALSE)
                        /\ (Len(field) = 9 /\ isdigit(field)) =>
                              check = Return(WeightedSum(field, 9) % 10 = 0)
                        /\ field = ABAGood => check = Return(TRUE)
                        /\ (isdigit(field) /\ field # ABAGood /\ field \in Replaced(ABAGood))
                              => check = Return(FALSE)
                   ELSE check = Return(TRUE)

\* a value that differs from "490000018" in its check digit is turned down
C10_Witness ==
    /\ Len(calls) = 1
    /\ IsCheckedABA(currentValidator, 0)
    /\ calls[1].row = <<[ABAGood EXCEPT ![9] = "9"]>>
    /\ calls[1].checks = <<Return(FALSE)>>
    /\ Returned(calls[1], 0)

(***************************************************************************)
(* Reading one call: the fields that do not pass their rule (a check that  *)
(* returns False or that raises), and the lowest of them.                  *)
(***************************************************************************)
FailingFields(self, row) == {j \in 0..(Len(row) - 1) : ~Passes(self, row, j)}

LowestFailing(self, row) ==
    CHOOSE i \in FailingFields(self, row) :
        \A j \in FailingFields(self, row) : i <= j

(***************************************************************************)
(* C11: for a row with the right number of fields under a validator other  *)
(* than "novalidate", let i be the lowest position whose trimmed field     *)
(* fails its rule.  If the count of empty fields has not reached the limit *)
(* at a position below i, validateRow returns i and evaluates no position  *)
(* after i, also when field i is itself empty or a later field's emptiness *)
(* would have reached the limit.  Whenever validateRow returns a field     *)
(* number i, no position below i fails its rule.                           *)
(***************************************************************************)
C11_LowestFailingFieldWins ==
    currentValidator.name # "novalidate" =>
        \A k \in 1..Len(calls) :
            LET call == calls[k]
                self == currentValidator
                row == call.row
            IN  WellShaped(self, row) =>
                  /\ ( /\ FailingFields(self, row) # {}
                       /\ \A q \in 0..(LowestFailing(self, row) - 1) :
                             ~ReachesLimit(self, row, q) )
                     => /\ Returned(call, LowestFailing(self, row))
                        /\ Len(call.checks) = LowestFailing(self, row) + 1
                  /\ IsFieldFailed(call) =>
                        \A j \in 0..(call.out.value - 1) : Passes(self, row, j)

\* every field of the row is empty after trimming
AllEmpty(row) == \A j \in 0..(Len(row) - 1) : Trimmed(row, j) = <<>>

(***************************************************************************)
(* C12, as stated: under a validator other than "novalidate" with at least *)
(* one field an all-empty row is always rejected; and under a validator    *)
(* with exactly one field, a one-field row whose field is empty after      *)
(* trimming is rejected with -3 (too many empty fields), whatever the      *)
(* field's allowEmptyFields flag.                                          *)
(***************************************************************************)
C12_OneFieldEmptyIsTooManyEmpty ==
    (currentValidator.name # "novalidate" /\ currentValidator.numFields >= 1) =>
        \A k \in 1..Len(calls) :
            (WellShaped(currentValidator, calls[k].row) /\ AllEmpty(calls[k].row))
            => /\ IsRejected(calls[k])
               /\ currentValidator.numFields = 1 =>
                     Returned(calls[k], RejectedTooManyEmptyFields)

(***************************************************************************)
(* C12, amended: under a validator other than "novalidate" with at least   *)
(* one field an all-empty row is always rejected; and under a validator    *)
(* with exactly one field, a one-field row whose field is empty after      *)
(* trimming is rejected with -3 (too many empty fields) when the field's   *)
(* rule allows an empty field, and with 0 (field 0 failed, counted in      *)
(* badFieldCounters[0]) when the rule does not.                            *)
(***************************************************************************)
C12_AllEmptyRejected ==
    (currentValidator.name # "novalidate" /\ currentValidator.numFields >= 1) =>
        \A k \in 1..Len(calls) :
            (WellShaped(currentValidator, calls[k].row) /\ AllEmpty(calls[k].row))
            => /\ IsRejected(calls[k])
               /\ currentValidator.numFields = 1 =>
                     IF currentValidator.validators[0].allowEmptyFields
                     THEN Returned(calls[k], RejectedTooManyEmptyFields)
                     ELSE /\ Returned(calls[k], 0)
                          /\ currentValidator.badFieldCounters[0] = 1

\* a whitespace-only field under a one-field validator whose rule allows empty
C12_Witness ==
    /\ currentValidator.numFields = 1
    /\ currentValidator.validators[0].allowEmptyFields
    /\ Len(calls) = 1
    /\ calls[1].row = <<<<" ">>>>
    /\ Returned(calls[1], RejectedTooManyEmptyFields)

====
